---- MODULE Spec2Model ----
(***************************************************************************)
(* The two drivers of prosail/sail_model.py, run_prosail and run_sail, as  *)
(* a state machine: one action per block of the function body, in source   *)
(* order.  A call is described by a frame (arguments, program position,    *)
(* local bindings, the collaborators invoked so far, the outcome); every   *)
(* block is an operator from frames to frames, and the actions apply it.   *)
(*                                                                         *)
(* Spectra are numpy 1-d arrays, modelled as sequences of integers         *)
(* (index i+1 of the sequence is index i of the array).  The wavelength    *)
(* grid of the source has 2101 points; the model keeps the grid length as  *)
(* NumWavelengths and scales it down.                                      *)
(*                                                                         *)
(* The module names spectral_libs, sail, nr, kab, ... are not bound in     *)
(* sail_model.py itself; the model takes them as provided by the package   *)
(* (reference data and the two physical engines of the specification).     *)
(***************************************************************************)
EXTENDS Integers, Sequences, FiniteSets, TLC

VARIABLES args, pc, locals, events, calls, outcome

vars == <<args, pc, locals, events, calls, outcome>>

\* Length of the wavelength grid (2101 in the source), scaled down.
NumWavelengths == 3

(***************************************************************************)
(* Python values.                                                          *)
(***************************************************************************)
\* None where an array is expected, None where a scalar is expected.
NoneA == [isNone |-> TRUE, val |-> <<>>]
NoneS == [isNone |-> TRUE, val |-> 0]
Some(v) == [isNone |-> FALSE, val |-> v]

\* A 1-d array of n samples, base + 1, base + 2, ...
Arr(n, base) == [i \in 1..n |-> base + i]

LowerCase == <<"a","b","c","d","e","f","g","h","i","j","k","l","m",
               "n","o","p","q","r","s","t","u","v","w","x","y","z">>
UpperCase == <<"A","B","C","D","E","F","G","H","I","J","K","L","M",
               "N","O","P","Q","R","S","T","U","V","W","X","Y","Z">>

\* A string is a sequence of characters; str.upper() maps each one.
ToUpperChar(c) ==
    IF \E i \in 1..Len(LowerCase) : LowerCase[i] = c
    THEN UpperCase[CHOOSE i \in 1..Len(LowerCase) : LowerCase[i] = c]
    ELSE c

str_upper(s) == [i \in 1..Len(s) |-> ToUpperChar(s[i])]

SDR == <<"S","D","R">>
BHR == <<"B","H","R">>
DHR == <<"D","H","R">>
HDR == <<"H","D","R">>
ALL == <<"A","L","L">>

\* The list of line 84 / 188.
FACTORS == <<SDR, BHR, DHR, HDR, ALL>>

InList(x, list) == \E i \in 1..Len(list) : list[i] = x

(***************************************************************************)
(* numpy arithmetic on 1-d arrays: scalar * array, and array + array with  *)
(* broadcasting (equal lengths, or one operand of length 1).               *)
(***************************************************************************)
Scale(k, a) == [i \in 1..Len(a) |-> k * a[i]]

Broadcastable(a, b) == Len(a) = Len(b) \/ Len(a) = 1 \/ Len(b) = 1

Add(a, b) ==
    IF Len(a) = Len(b) THEN [i \in 1..Len(a) |-> a[i] + b[i]]
    ELSE IF Len(b) = 1 THEN [i \in 1..Len(a) |-> a[i] + b[1]]
    ELSE [i \in 1..Len(b) |-> a[1] + b[i]]

\* rsoil * (psoil * soil_spectrum1 + (1. - psoil) * soil_spectrum2)
SoilMixture(rsoil, psoil, s1, s2) ==
    Scale(rsoil, Add(Scale(psoil, s1), Scale(1 - psoil, s2)))

(***************************************************************************)
(* Collaborators that live outside sail_model.py.                          *)
(***************************************************************************)
\* The two reference soil spectra of the spectral library.
spectral_libs_rsoil1 == Arr(NumWavelengths, 10)
spectral_libs_rsoil2 == [i \in 1..NumWavelengths |-> 20 + 2 * i]

\* The leaf model accepts two variants.
PROSPECT_VERSIONS == {"5", "D"}

\* The leaf model is a deterministic function of its arguments: its
\* reflectance and transmittance are kept as terms over them.
run_prospect(leaf, version) ==
    [refl  |-> [quantity |-> "refl",  leaf |-> leaf, version |-> version],
     trans |-> [quantity |-> "trans", leaf |-> leaf, version |-> version]]

\* The canopy model is a deterministic function of its arguments; it returns
\* four rows (SDR, BHR, DHR, HDR), kept as terms over the arguments.
sail(refl, trans, canopy, rsoil0) ==
    [k \in 1..4 |-> [component |-> k - 1, refl |-> refl, trans |-> trans,
                     canopy |-> canopy, rsoil0 |-> rsoil0]]

(***************************************************************************)
(* Outcomes of a call.                                                     *)
(***************************************************************************)
NoValue == [ndim |-> 0, rows |-> <<>>]
Pending == [kind |-> "pending", exc |-> "", msg |-> "", value |-> NoValue]
Raised(exc, msg) == [kind |-> "raise", exc |-> exc, msg |-> msg, value |-> NoValue]
Returned(v) == [kind |-> "return", exc |-> "", msg |-> "", value |-> v]

\* rho[k, :] and rho
Row(rho, k) == [ndim |-> 1, rows |-> <<rho[k + 1]>>]
Whole(rho) == [ndim |-> 2, rows |-> rho]

Raise(f, exc, msg) == [f EXCEPT !.pc = "done", !.outcome = Raised(exc, msg)]

(***************************************************************************)
(* The frame of a call at entry: the locals are bound to the arguments.    *)
(***************************************************************************)
Entry(a) ==
    [args    |-> a,
     pc      |-> "validate_factor",
     locals  |-> [factor         |-> a.factor,
                  soil_spectrum1 |-> a.soil_spectrum1,
                  soil_spectrum2 |-> a.soil_spectrum2,
                  rsoil0         |-> a.rsoil0,
                  refl           |-> a.refl,
                  trans          |-> a.trans,
                  rho            |-> <<>>],
     events  |-> <<>>,
     calls   |-> [prospect |-> <<>>, sail |-> <<>>],
     outcome |-> Pending]

(***************************************************************************)
(* The blocks of the function body.                                        *)
(***************************************************************************)
\* A bug ValidateFactor could have: the list is tested before upper-casing.
ValidateFactor_NoUpper(f) ==
    LET g == [f EXCEPT !.events = Append(@, "validate_factor")]
    IN  IF ~InList(f.locals.factor, FACTORS)
        THEN Raise(g, "ValueError", "factor")
        ELSE [g EXCEPT !.pc = "check_soil_spectrum1"]

\* factor = factor.upper(); if factor not in [...]: raise ValueError
ValidateFactor(f) ==
    LET up == str_upper(f.locals.factor)
        g  == [f EXCEPT !.locals.factor = up,
                        !.events = Append(@, "validate_factor")]
    IN  IF ~InList(up, FACTORS)
        THEN Raise(g, "ValueError", "factor")
        ELSE [g EXCEPT !.pc = "check_soil_spectrum1"]

\* if soil_spectrum1 is not None: assert len(soil_spectrum1) == 2101
\* else: soil_spectrum1 = spectral_libs.rsoil1
CheckSoilSpectrum1(f) ==
    IF ~f.locals.soil_spectrum1.isNone
    THEN IF Len(f.locals.soil_spectrum1.val) = NumWavelengths
         THEN [f EXCEPT !.pc = "check_soil_spectrum2"]
         ELSE Raise(f, "AssertionError", "")
    ELSE [f EXCEPT !.locals.soil_spectrum1 = Some(spectral_libs_rsoil1),
                   !.pc = "check_soil_spectrum2"]

\* if soil_spectrum2 is not None: assert len(soil_spectrum1) == 2101
\* else: soil_spectrum2 = spectral_libs.rsoil2
CheckSoilSpectrum2(f) ==
    IF ~f.locals.soil_spectrum2.isNone
    THEN IF Len(f.locals.soil_spectrum1.val) = NumWavelengths
         THEN [f EXCEPT !.pc = "resolve_soil"]
         ELSE Raise(f, "AssertionError", "")
    ELSE [f EXCEPT !.locals.soil_spectrum2 = Some(spectral_libs_rsoil2),
                   !.pc = "resolve_soil"]

AfterSoil(f) == IF f.args.fn = "run_prosail" THEN "run_prospect" ELSE "sail"

\* Evaluation of the mixture expression; numpy raises ValueError when the
\* two arrays cannot be broadcast together.
Mix(f) ==
    LET s1 == f.locals.soil_spectrum1.val
        s2 == f.locals.soil_spectrum2.val
        g  == [f EXCEPT !.events = Append(@, "mix")]
    IN  IF ~Broadcastable(s1, s2)
        THEN Raise(g, "ValueError", "broadcast")
        ELSE [g EXCEPT !.locals.rsoil0 =
                           Some(SoilMixture(f.args.rsoil.val, f.args.psoil.val, s1, s2)),
                       !.pc = AfterSoil(f)]

\* A bug ResolveSoil could have: "and" for "or" in the test of the scalars.
ResolveSoil_And(f) ==
    LET g == [f EXCEPT !.events = Append(@, "resolve_soil")]
    IN  IF f.locals.rsoil0.isNone
        THEN IF f.args.rsoil.isNone /\ f.args.psoil.isNone
             THEN Raise(g, "ValueError", "soil")
             ELSE IF f.args.rsoil.isNone \/ f.args.psoil.isNone
                  THEN Raise(g, "TypeError", "NoneType")
                  ELSE Mix(g)
        ELSE [g EXCEPT !.pc = AfterSoil(f)]

\* A bug ResolveSoil could have: the mixture replaces a supplied rsoil0
\* whenever both scalars are there.
ResolveSoil_MixFirst(f) ==
    LET g == [f EXCEPT !.events = Append(@, "resolve_soil")]
    IN  IF ~f.args.rsoil.isNone /\ ~f.args.psoil.isNone
        THEN Mix(g)
        ELSE IF f.locals.rsoil0.isNone
             THEN Raise(g, "ValueError", "soil")
             ELSE [g EXCEPT !.pc = AfterSoil(f)]

\* A bug ResolveSoil could have: the scalars are required before rsoil0 is
\* looked at.
ResolveSoil_ScalarsFirst(f) ==
    LET g == [f EXCEPT !.events = Append(@, "resolve_soil")]
    IN  IF f.args.rsoil.isNone \/ f.args.psoil.isNone
        THEN Raise(g, "ValueError", "soil")
        ELSE IF f.locals.rsoil0.isNone
             THEN Mix(g)
             ELSE [g EXCEPT !.pc = AfterSoil(f)]

\* if rsoil0 is None:
\*     if (rsoil is None) or (psoil is None): raise ValueError
\*     rsoil0 = rsoil * (psoil * soil_spectrum1 + (1. - psoil) * soil_spectrum2)
ResolveSoil(f) ==
    LET g == [f EXCEPT !.events = Append(@, "resolve_soil")]
    IN  IF f.locals.rsoil0.isNone
        THEN IF f.args.rsoil.isNone \/ f.args.psoil.isNone
             THEN Raise(g, "ValueError", "soil")
             ELSE Mix(g)
        ELSE [g EXCEPT !.pc = AfterSoil(f)]

\* wv, refl, trans = run_prospect(n, cab, ..., prospect_version=..., ...)
\* The leaf model rejects a version outside its two variants.
RunProspect(f) ==
    LET g == [f EXCEPT !.events = Append(@, "leaf"),
                       !.calls.prospect =
                           Append(@, [leaf    |-> f.args.leaf,
                                      version |-> f.args.prospect_version])]
        out == run_prospect(f.args.leaf, f.args.prospect_version)
    IN  IF f.args.prospect_version \notin PROSPECT_VERSIONS
        THEN Raise(g, "ValueError", "prospect_version")
        ELSE [g EXCEPT !.locals.refl = Some(out.refl),
                       !.locals.trans = Some(out.trans),
                       !.pc = "sail"]

\* A bug RunSail could have: reflectance and transmittance exchanged.
RunSail_Swapped(f) ==
    LET refl   == f.locals.trans.val
        trans  == f.locals.refl.val
        rsoil0 == f.locals.rsoil0.val
    IN  [f EXCEPT !.events = Append(@, "canopy"),
                  !.calls.sail = Append(@, [refl |-> refl, trans |-> trans,
                                            canopy |-> f.args.canopy,
                                            rsoil0 |-> rsoil0]),
                  !.locals.rho = sail(refl, trans, f.args.canopy, rsoil0),
                  !.pc = "select_output"]

\* rho = sail(refl, trans, lai, lidfa, lidfb, rsoil0, hspot, tts, tto, psi,
\*            typelidf)
RunSail(f) ==
    LET refl   == f.locals.refl.val
        trans  == f.locals.trans.val
        rsoil0 == f.locals.rsoil0.val
    IN  [f EXCEPT !.events = Append(@, "canopy"),
                  !.calls.sail = Append(@, [refl |-> refl, trans |-> trans,
                                            canopy |-> f.args.canopy,
                                            rsoil0 |-> rsoil0]),
                  !.locals.rho = sail(refl, trans, f.args.canopy, rsoil0),
                  !.pc = "select_output"]

\* A bug SelectOutput could have: two row indices exchanged.
SelectOutput_WrongRow(f) ==
    LET rho == f.locals.rho
        v == IF f.locals.factor = SDR THEN Row(rho, 0)
             ELSE IF f.locals.factor = BHR THEN Row(rho, 2)
             ELSE IF f.locals.factor = DHR THEN Row(rho, 1)
             ELSE IF f.locals.factor = HDR THEN Row(rho, 3)
             ELSE IF f.locals.factor = ALL THEN Whole(rho)
             ELSE NoValue
    IN  [f EXCEPT !.events = Append(@, "select"),
                  !.outcome = Returned(v),
                  !.pc = "done"]

\* if factor == "SDR": return rho[0, :] ... elif factor == "ALL": return rho
\* (a function body that ends without a return gives None)
SelectOutput(f) ==
    LET rho == f.locals.rho
        v == IF f.locals.factor = SDR THEN Row(rho, 0)
             ELSE IF f.locals.factor = BHR THEN Row(rho, 1)
             ELSE IF f.locals.factor = DHR THEN Row(rho, 2)
             ELSE IF f.locals.factor = HDR THEN Row(rho, 3)
             ELSE IF f.locals.factor = ALL THEN Whole(rho)
             ELSE NoValue
    IN  [f EXCEPT !.events = Append(@, "select"),
                  !.outcome = Returned(v),
                  !.pc = "done"]

\* One block of the body, by program position.
Step(f) ==
    CASE f.pc = "validate_factor"      -> ValidateFactor(f)
      [] f.pc = "check_soil_spectrum1" -> CheckSoilSpectrum1(f)
      [] f.pc = "check_soil_spectrum2" -> CheckSoilSpectrum2(f)
      [] f.pc = "resolve_soil"         -> ResolveSoil(f)
      [] f.pc = "run_prospect"         -> RunProspect(f)
      [] f.pc = "sail"                 -> RunSail(f)
      [] f.pc = "select_output"        -> SelectOutput(f)
      [] OTHER                         -> f

\* A whole call: the body run to its return or raise.
RECURSIVE Run(_)
Run(f) == IF f.pc = "done" THEN f ELSE Run(Step(f))

(***************************************************************************)
(* The calls the model makes.                                              *)
(***************************************************************************)
FactorChoices ==
    {SDR, <<"b","h","r">>, <<"D","h","r">>, <<"h","d","R">>, <<"A","l","l">>,
     <<"x","y","z">>, <<"S","D">>}

Soil1Choices == {NoneA, Some(Arr(NumWavelengths, 30)), Some(Arr(NumWavelengths - 1, 30))}
Soil2Choices == {NoneA, Some(Arr(NumWavelengths, 40)), Some(Arr(NumWavelengths - 1, 40)),
                 Some(Arr(1, 40))}
Rsoil0Choices == {NoneA, Some(Arr(NumWavelengths, 50)), Some(Arr(NumWavelengths - 1, 50))}
RsoilChoices == {NoneS, Some(1), Some(2)}
PsoilChoices == {NoneS, Some(0), Some(1), Some(3)}

\* (n, cab, car, cbrown, cw, cm, ant, alpha) and
\* (lai, lidfa, lidfb, hspot, tts, tto, psi, typelidf)
LeafParameters == <<2, 40, 8, 0, 1, 1, 0, 40>>
CanopyParameters == <<3, 50, 0, 1, 30, 0, 0, 2>>

SoilArgs ==
    [rsoil0 : Rsoil0Choices, rsoil : RsoilChoices, psoil : PsoilChoices,
     soil_spectrum1 : Soil1Choices, soil_spectrum2 : Soil2Choices]

MkArgs(fn, factor, version, refl, trans, s) ==
    [fn |-> fn, factor |-> factor, prospect_version |-> version,
     leaf |-> LeafParameters, canopy |-> CanopyParameters,
     refl |-> refl, trans |-> trans,
     rsoil0 |-> s.rsoil0, rsoil |-> s.rsoil, psoil |-> s.psoil,
     soil_spectrum1 |-> s.soil_spectrum1, soil_spectrum2 |-> s.soil_spectrum2]

ProsailArgs ==
    {MkArgs("run_prosail", fa, v, NoneA, NoneA, s) :
        fa \in FactorChoices, v \in {"5", "D", "4"}, s \in SoilArgs}

SailArgs ==
    {MkArgs("run_sail", fa, "", Some(Arr(NumWavelengths, 60)),
            Some(Arr(NumWavelengths, 70)), s) :
        fa \in FactorChoices, s \in SoilArgs}

NoArgs == MkArgs("", <<>>, "", NoneA, NoneA,
                 [rsoil0 |-> NoneA, rsoil |-> NoneS, psoil |-> NoneS,
                  soil_spectrum1 |-> NoneA, soil_spectrum2 |-> NoneA])

(***************************************************************************)
(* The state machine.                                                      *)
(***************************************************************************)
Frame == [args |-> args, pc |-> pc, locals |-> locals, events |-> events,
          calls |-> calls, outcome |-> outcome]

Becomes(f) ==
    /\ args' = f.args
    /\ pc' = f.pc
    /\ locals' = f.locals
    /\ events' = f.events
    /\ calls' = f.calls
    /\ outcome' = f.outcome

Init ==
    /\ args = NoArgs
    /\ pc = "idle"
    /\ locals = Entry(NoArgs).locals
    /\ events = <<>>
    /\ calls = [prospect |-> <<>>, sail |-> <<>>]
    /\ outcome = Pending

CallProsail == pc = "idle" /\ \E a \in ProsailArgs : Becomes(Entry(a))

CallSail == pc = "idle" /\ \E a \in SailArgs : Becomes(Entry(a))

DoValidateFactor == pc = "validate_factor" /\ Becomes(ValidateFactor(Frame))

DoCheckSoilSpectrum1 == pc = "check_soil_spectrum1" /\ Becomes(CheckSoilSpectrum1(Frame))

DoCheckSoilSpectrum2 == pc = "check_soil_spectrum2" /\ Becomes(CheckSoilSpectrum2(Frame))

DoResolveSoil == pc = "resolve_soil" /\ Becomes(ResolveSoil(Frame))

DoRunProspect == pc = "run_prospect" /\ Becomes(RunProspect(Frame))

DoRunSail == pc = "sail" /\ Becomes(RunSail(Frame))

DoSelectOutput == pc = "select_output" /\ Becomes(SelectOutput(Frame))

Next ==
    \/ CallProsail
    \/ CallSail
    \/ DoValidateFactor
    \/ DoCheckSoilSpectrum1
    \/ DoCheckSoilSpectrum2
    \/ DoResolveSoil
    \/ DoRunProspect
    \/ DoRunSail
    \/ DoSelectOutput

Spec == Init /\ [][Next]_vars

(***************************************************************************)
(* Vocabulary of the properties.                                           *)
(***************************************************************************)
Has(ev) == \E i \in 1..Len(events) : events[i] = ev

\* s is t (an upper-case name) up to the case of its letters.
SameUpToCase(s, t) ==
    /\ Len(s) = Len(t)
    /\ \A i \in 1..Len(s) :
          \/ s[i] = t[i]
          \/ \E j \in 1..Len(LowerCase) : LowerCase[j] = s[i] /\ UpperCase[j] = t[i]

FactorOrder == <<SDR, BHR, DHR, HDR>>

Accepted(fa) == \E t \in {SDR, BHR, DHR, HDR, ALL} : SameUpToCase(fa, t)

InvalidSelector == Raised("ValueError", "factor")
MalformedSpectrum == Raised("AssertionError", "")
UnderspecifiedSoil == Raised("ValueError", "soil")

\* A supplied array whose length is not that of the wavelength grid.
Bad(x) == ~x.isNone /\ Len(x.val) # NumWavelengths

ScalarsSupplied == ~args.rsoil.isNone /\ ~args.psoil.isNone

NoPhysics == ~Has("mix") /\ calls.prospect = <<>> /\ calls.sail = <<>>

\* The component spectra the mixture reads: the supplied one, else the library's.
Component1 == IF args.soil_spectrum1.isNone THEN spectral_libs_rsoil1
              ELSE args.soil_spectrum1.val
Component2 == IF args.soil_spectrum2.isNone THEN spectral_libs_rsoil2
              ELSE args.soil_spectrum2.val

MixArgs ==
    [rsoil : RsoilChoices, psoil : PsoilChoices,
     soil_spectrum1 : Soil1Choices, soil_spectrum2 : Soil2Choices]

WithMix(a, m) ==
    [a EXCEPT !.rsoil = m.rsoil, !.psoil = m.psoil,
              !.soil_spectrum1 = m.soil_spectrum1,
              !.soil_spectrum2 = m.soil_spectrum2]

\* The outcome of the same function called with arguments a.
OutcomeOf(a) == Run(Entry(a)).outcome

(***************************************************************************)
(* C1.  Once the selector has been validated, the call has passed          *)
(* validation exactly when the factor is one of SDR, BHR, DHR, HDR, ALL up *)
(* to the case of its letters; otherwise it has failed with the            *)
(* invalid-selector error, and no soil resolution, leaf model or canopy    *)
(* model has run.                                                          *)
(***************************************************************************)
C1_SelectorValidation ==
    Has("validate_factor") =>
        /\ Accepted(args.factor) <=> outcome # InvalidSelector
        /\ outcome = InvalidSelector =>
              /\ pc = "done"
              /\ events = <<"validate_factor">>
              /\ NoPhysics

C1_Witness ==
    /\ pc = "check_soil_spectrum1"
    /\ args.factor = <<"h","d","R">>
    /\ locals.factor = HDR

(***************************************************************************)
(* C2.  A call that supplies soil_spectrum1 or soil_spectrum2 of a length  *)
(* other than the grid's ends in a failure, with no soil mixture evaluated *)
(* and no canopy model invoked.                                            *)
(***************************************************************************)
C2_MalformedComponentFails ==
    (pc = "done" /\ (Bad(args.soil_spectrum1) \/ Bad(args.soil_spectrum2))) =>
        /\ outcome.kind = "raise"
        /\ ~Has("mix")
        /\ calls.sail = <<>>

(***************************************************************************)
(* C3.  A call that supplies rsoil0 of a length other than the grid's ends *)
(* in a failure and the canopy model is never invoked with that spectrum.  *)
(***************************************************************************)
C3_MalformedRsoil0Fails ==
    Bad(args.rsoil0) =>
        /\ calls.sail = <<>>
        /\ pc = "done" => outcome.kind = "raise"

(***************************************************************************)
(* C4 as stated.  Whenever rsoil0 is not supplied and rsoil or psoil is    *)
(* missing, the call fails with the underspecified-soil error and no leaf  *)
(* or canopy model is invoked; with both scalars the error never occurs.   *)
(***************************************************************************)
C4_Original ==
    (pc = "done" /\ args.rsoil0.isNone) =>
        /\ ~ScalarsSupplied =>
              /\ outcome = UnderspecifiedSoil
              /\ calls.prospect = <<>>
              /\ calls.sail = <<>>
        /\ ScalarsSupplied => outcome # UnderspecifiedSoil

(***************************************************************************)
(* C4 as amended.  When rsoil0 is not supplied, rsoil or psoil is missing, *)
(* the factor selector is valid and soil_spectrum1 is absent or of the     *)
(* grid's length, the call fails with the underspecified-soil error, which *)
(* is not the error of a failed length check, and neither the mixture, the *)
(* leaf model nor the canopy model has run; with both scalars supplied the *)
(* error never occurs.                                                     *)
(***************************************************************************)
C4_UnderspecifiedSoil ==
    (pc = "done" /\ args.rsoil0.isNone) =>
        /\ (~ScalarsSupplied /\ Accepted(args.factor) /\ ~Bad(args.soil_spectrum1)) =>
              /\ outcome = UnderspecifiedSoil
              /\ outcome # MalformedSpectrum
              /\ NoPhysics
        /\ ~ScalarsSupplied => calls.prospect = <<>> /\ calls.sail = <<>>
        /\ ScalarsSupplied => outcome # UnderspecifiedSoil

C4_Witness ==
    /\ pc = "done"
    /\ args.rsoil0.isNone
    /\ ~args.rsoil.isNone
    /\ args.psoil.isNone
    /\ outcome = UnderspecifiedSoil

(***************************************************************************)
(* C5.  A call that ends in an error has evaluated no soil mixture and has *)
(* invoked neither the leaf model nor the canopy model.                    *)
(***************************************************************************)
C5_FailuresBeforePhysics ==
    (pc = "done" /\ outcome.kind = "raise") => NoPhysics

(***************************************************************************)
(* C6.  When rsoil0 is supplied and the canopy model has been invoked, no  *)
(* mixture was evaluated and the canopy model got the supplied rsoil0.     *)
(***************************************************************************)
C6_SuppliedSoilVerbatim ==
    (~args.rsoil0.isNone /\ Has("canopy")) =>
        /\ ~Has("mix")
        /\ Len(calls.sail) = 1
        /\ calls.sail[1].rsoil0 = args.rsoil0.val

C6_Witness ==
    /\ Has("canopy")
    /\ ~args.rsoil0.isNone
    /\ ScalarsSupplied
    /\ ~args.soil_spectrum1.isNone
    /\ ~args.soil_spectrum2.isNone

(***************************************************************************)
(* C7.  When rsoil0 is not supplied and both scalars are, the background   *)
(* the canopy model gets has the length of the two component spectra and   *)
(* is rsoil * (psoil * s1[i] + (1 - psoil) * s2[i]) at every index; with   *)
(* rsoil = 1 it is s1 for psoil = 1 and s2 for psoil = 0.                  *)
(***************************************************************************)
C7_MixtureFormula ==
    (args.rsoil0.isNone /\ ScalarsSupplied /\ Has("canopy")) =>
        LET bg == calls.sail[1].rsoil0
            r  == args.rsoil.val
            p  == args.psoil.val
        IN  /\ Len(bg) = Len(Component1)
            /\ Len(bg) = Len(Component2)
            /\ \A i \in 1..Len(bg) :
                  bg[i] = r * (p * Component1[i] + (1 - p) * Component2[i])
            /\ (r = 1 /\ p = 1) => bg = Component1
            /\ (r = 1 /\ p = 0) => bg = Component2

(***************************************************************************)
(* C8.  A call that does not fail returns a value: row 0, 1, 2, 3 of the   *)
(* canopy result for SDR, BHR, DHR, HDR, and the four rows in that order   *)
(* for ALL; row k of the ALL result is what the call with the k-th factor  *)
(* and otherwise the same arguments returns.                               *)
(***************************************************************************)
C8_OutputSelection ==
    (pc = "done" /\ outcome.kind # "raise") =>
        /\ outcome.kind = "return"
        /\ outcome.value.ndim # 0
        /\ \A k \in 1..4 :
              SameUpToCase(args.factor, FactorOrder[k]) =>
                  outcome.value = [ndim |-> 1, rows |-> <<locals.rho[k]>>]
        /\ SameUpToCase(args.factor, ALL) =>
              /\ outcome.value = [ndim |-> 2, rows |-> locals.rho]
              /\ Len(outcome.value.rows) = 4
              /\ \A k \in 1..4 :
                    LET one == OutcomeOf([args EXCEPT !.factor = FactorOrder[k]])
                    IN  /\ one.kind = "return"
                        /\ one.value.ndim = 1
                        /\ one.value.rows[1] = outcome.value.rows[k]

C8_Witness ==
    /\ pc = "done"
    /\ outcome.kind = "return"
    /\ args.factor = <<"A","l","l">>
    /\ outcome.value.ndim = 2

(***************************************************************************)
(* C9.  In a call that returns, the steps are, in this order: validate the *)
(* selector, resolve the soil, (run_prosail only) the leaf model once, the *)
(* canopy model once, select the output.  run_sail never invokes the leaf  *)
(* model and hands the caller's refl and trans to the canopy model;        *)
(* run_prosail hands it what the leaf model returned; both hand it the     *)
(* resolved soil spectrum.                                                 *)
(***************************************************************************)
C9_StepOrder ==
    (pc = "done" /\ outcome.kind = "return") =>
        LET NotMix(e) == e # "mix"
            steps == SelectSeq(events, NotMix)
        IN  /\ Len(calls.sail) = 1
            /\ calls.sail[1].rsoil0 = locals.rsoil0.val
            /\ Has("mix") => events[2] = "resolve_soil" /\ events[3] = "mix"
            /\ args.fn = "run_prosail" =>
                  /\ steps = <<"validate_factor", "resolve_soil", "leaf", "canopy", "select">>
                  /\ calls.prospect = <<[leaf |-> args.leaf, version |-> args.prospect_version]>>
                  /\ calls.sail[1].refl = run_prospect(args.leaf, args.prospect_version).refl
                  /\ calls.sail[1].trans = run_prospect(args.leaf, args.prospect_version).trans
            /\ args.fn = "run_sail" =>
                  /\ steps = <<"validate_factor", "resolve_soil", "canopy", "select">>
                  /\ calls.prospect = <<>>
                  /\ calls.sail[1].refl = args.refl.val
                  /\ calls.sail[1].trans = args.trans.val

C9_Witness ==
    /\ pc = "done"
    /\ outcome.kind = "return"
    /\ args.fn = "run_prosail"
    /\ Has("mix")

====
